---- MODULE Spec2Model ----
(***************************************************************************)
(* go-mail: an HTTP gateway that relays a contact-form submission to the   *)
(* mailgun provider.  The model follows src/main.go: main's start-up       *)
(* (PORT, .config file, environment fallback), the two routes, the         *)
(* provider call a request blocks on, and the interrupt-driven shutdown.   *)
(*                                                                         *)
(* Strings that the code splits or compares element-wise (referers) are    *)
(* sequences of one-character strings; the other strings are TLA+ strings. *)
(* A JSON text is [wf, pairs]: wf says whether it is syntactically valid,  *)
(* pairs are its members in order, each [k, t, s, a] with t the JSON type  *)
(* of the value, s a string value and a an array-of-strings value.         *)
(***************************************************************************)
EXTENDS Integers, Sequences, FiniteSets, TLC

VARIABLES mainPc, exit, c, mg, fileRead, envRead, listener, notified,
          sigchan, interrupted, ctxDone, reqs, mgSends

vars == <<mainPc, exit, c, mg, fileRead, envRead, listener, notified,
          sigchan, interrupted, ctxDone, reqs, mgSends>>

\* ---------------------------------------------------------------- bounds
MaxRequests == 2

\* ------------------------------------------------------------- constants
StatusOK == 200
StatusForbidden == 403
StatusInternalServerError == 500

\* ------------------------------------------------------------ data types
nil == <<>>

config(Domain, PrivateAPIKey, PublicValidationKey, ToAddress, Referers) ==
    [Domain |-> Domain, PrivateAPIKey |-> PrivateAPIKey,
     PublicValidationKey |-> PublicValidationKey, ToAddress |-> ToAddress,
     Referers |-> Referers]

\* var c config: every field at its zero value
zeroConfig == config("", "", "", "", <<>>)

message(Name, Email, Message, Honeypot) ==
    [Name |-> Name, Email |-> Email, Message |-> Message, Honeypot |-> Honeypot]

\* var m message
zeroMessage == message("", "", "", "")

\* JSON members
jstr(k, s) == [k |-> k, t |-> "string", s |-> s, a |-> <<>>]
jnum(k, s) == [k |-> k, t |-> "number", s |-> s, a |-> <<>>]
jarr(k, a) == [k |-> k, t |-> "array", s |-> "", a |-> a]
json(pairs) == [wf |-> TRUE, pairs |-> pairs]
garbage == [wf |-> FALSE, pairs |-> <<>>]

\* --------------------------------------------------------------- decoding
\* one member of a JSON object assigned to the config struct by its json tag;
\* a member of the wrong JSON type is skipped and reported
setConfigField(cfg, p) ==
    IF p.k = "domain" /\ p.t = "string" THEN [cfg EXCEPT !.Domain = p.s]
    ELSE IF p.k = "privateAPIKey" /\ p.t = "string" THEN [cfg EXCEPT !.PrivateAPIKey = p.s]
    ELSE IF p.k = "publicValidationKey" /\ p.t = "string" THEN [cfg EXCEPT !.PublicValidationKey = p.s]
    ELSE IF p.k = "toAddress" /\ p.t = "string" THEN [cfg EXCEPT !.ToAddress = p.s]
    ELSE IF p.k = "referers" /\ p.t = "array" THEN [cfg EXCEPT !.Referers = p.a]
    ELSE cfg

RECURSIVE unmarshalConfig(_, _)
unmarshalConfig(pairs, cfg) ==
    IF pairs = <<>> THEN cfg
    ELSE unmarshalConfig(Tail(pairs), setConfigField(cfg, Head(pairs)))

setMessageField(m, p) ==
    IF p.k = "name" /\ p.t = "string" THEN [m EXCEPT !.Name = p.s]
    ELSE IF p.k = "email" /\ p.t = "string" THEN [m EXCEPT !.Email = p.s]
    ELSE IF p.k = "message" /\ p.t = "string" THEN [m EXCEPT !.Message = p.s]
    ELSE IF p.k = "honeypot" /\ p.t = "string" THEN [m EXCEPT !.Honeypot = p.s]
    ELSE m

messageKeys == {"name", "email", "message", "honeypot"}

RECURSIVE unmarshalMessage(_, _)
unmarshalMessage(pairs, m) ==
    IF pairs = <<>> THEN m
    ELSE unmarshalMessage(Tail(pairs), setMessageField(m, Head(pairs)))

\* json.NewDecoder(r.Body).Decode(&m), which reads the first JSON value of
\* the body (wf is about that value): a syntax error (or an empty body)
\* fails; a member of a known key with a non-string value fails with a type
\* error after the other members were stored; unknown keys are ignored
Decode(body) ==
    IF ~body.wf THEN [err |-> TRUE, m |-> zeroMessage]
    ELSE [err |-> \E i \in 1..Len(body.pairs) :
                      body.pairs[i].k \in messageKeys /\ body.pairs[i].t # "string",
          m |-> unmarshalMessage(body.pairs, zeroMessage)]

\* strings.Split(s, ","): the substrings between the separators, one more
\* than there are separators (so one empty substring for the empty string)
RECURSIVE Split(_)
Split(s) ==
    IF \A i \in 1..Len(s) : s[i] # ","
    THEN <<s>>
    ELSE LET i == CHOOSE j \in 1..Len(s) :
                      s[j] = "," /\ \A k \in 1..(j - 1) : s[k] # ","
         IN <<SubSeq(s, 1, i - 1)>> \o Split(SubSeq(s, i + 1, Len(s)))

\* ------------------------------------------------------------- responses
ACAO == "Access-Control-Allow-Origin: *"
NoSniff == "X-Content-Type-Options: nosniff"
ContentTypeJSON == "Content-Type: application/json"
AllowHeaders == "Access-Control-Allow-Headers: Content-Type"
AllowMethods == "Access-Control-Allow-Methods: POST"
OKBody == "{\"status\":\"ok\"}"

\* http.StatusText
StatusText(code) ==
    IF code = StatusInternalServerError THEN "Internal Server Error"
    ELSE IF code = StatusForbidden THEN "Forbidden"
    ELSE "OK"

\* what a handler leaves behind: the response written (status 0: none yet),
\* whether it got as far as decoding the body, and the provider message it
\* is blocked sending (send = <<msg>>) if any
result(pc, status, headers, respBody, decoded, send) ==
    [pc |-> pc, status |-> status, headers |-> headers, respBody |-> respBody,
     decoded |-> decoded, send |-> send]

\* the error replies of mailHandler: one header, the status, its text
writeError(code, decoded) ==
    result("done", code, {ACAO}, StatusText(code), decoded, <<>>)

\* faulty variant: the success reply without the sniffing guard
writeStatusOK_NoGuard ==
    result("done", StatusOK, {ContentTypeJSON, ACAO}, OKBody, TRUE, <<>>)

\* the StatusOK label of mailHandler
writeStatusOK ==
    result("done", StatusOK, {ContentTypeJSON, ACAO, NoSniff}, OKBody, TRUE, <<>>)

\* the OPTIONS / route
optionsHandler ==
    result("done", StatusOK,
           {AllowHeaders, AllowMethods, ACAO, ContentTypeJSON, NoSniff},
           OKBody, FALSE, <<>>)

\* ------------------------------------------------------------ the handler
\* faulty variant: only the first entry of the list is compared
containsString_FirstOnly(sl, v) == Len(sl) > 0 /\ sl[1] = v

containsString(sl, v) == \E i \in 1..Len(sl) : sl[i] = v

\* mg.NewMessage(from, subject, text, to)
NewMessage(from, subject, text, to) ==
    [from |-> from, subject |-> subject, text |-> text, to |-> to]

\* faulty variant: sender and subject exchanged
sendMessage_Swapped(sender, subject, body, recipient) ==
    NewMessage(subject, sender, body, recipient)

\* sendMessage up to the blocking mg.Send: the message handed to the provider
sendMessage(sender, subject, body, recipient) ==
    NewMessage(sender, subject, body, recipient)

\* faulty variant: the provider's error is dropped
afterSend_AlwaysOK(err) == writeStatusOK

\* sendMessage's return and the handler's reaction to it
afterSend(err) ==
    IF err THEN writeError(StatusInternalServerError, TRUE) ELSE writeStatusOK

\* the call of sendMessage; a nil provider client panics, which net/http
\* recovers by dropping the connection without a response
dispatchStage(cfg, client, m) ==
    IF client = nil
    THEN result("done", 0, {}, "", TRUE, <<>>)
    ELSE result("sending", 0, {}, "", TRUE,
                <<sendMessage(m.Email, m.Name, m.Message, cfg.ToAddress)>>)

\* faulty variant: the honeypot is not looked at
honeypotStage_Skipped(cfg, client, m) == dispatchStage(cfg, client, m)

\* the honeypot branch
honeypotStage(cfg, client, m) ==
    IF m.Honeypot # "" THEN writeStatusOK ELSE dispatchStage(cfg, client, m)

\* faulty variant: the decoder's error is not checked
decodeStage_ErrIgnored(cfg, client, body) ==
    honeypotStage(cfg, client, Decode(body).m)

\* the body decoded, or the reply to a body that does not decode
decodeStage(cfg, client, body) ==
    LET d == Decode(body)
    IN IF d.err THEN writeError(StatusInternalServerError, TRUE)
       ELSE honeypotStage(cfg, client, d.m)

\* the referer allow-list
refererStage(cfg, client, referer, body) ==
    IF Len(cfg.Referers) # 0 /\ ~containsString(cfg.Referers, referer)
    THEN writeError(StatusForbidden, FALSE)
    ELSE decodeStage(cfg, client, body)

\* POST /mail, from the nil check on
mailHandler(sc, client, referer, body) ==
    IF sc = nil THEN writeError(StatusInternalServerError, FALSE)
    ELSE refererStage(sc[1], client, referer, body)

\* ---------------------------------------------------------- configuration
\* s.c after loadConfigFromFile and the error it returns; the result of
\* json.Unmarshal is dropped, so text that does not parse leaves c zero
loadConfigFromFile(file) ==
    IF file.open # "ok" THEN [c |-> nil, err |-> TRUE]
    ELSE IF file.read # "ok" THEN [c |-> nil, err |-> TRUE]
    ELSE [c |-> <<IF file.content.wf
                  THEN unmarshalConfig(file.content.pairs, zeroConfig)
                  ELSE zeroConfig>>,
          err |-> FALSE]

loadConfigFromEnv(env) ==
    LET cfg == config(env.MGDOMAIN, env.MGPRIVATEKEY, env.MGPUBLICKEY,
                      env.TOADDRESS, Split(env.REFERERS))
    IN IF cfg.Domain = "" \/ cfg.PrivateAPIKey = ""
          \/ cfg.PublicValidationKey = "" \/ cfg.ToAddress = ""
       THEN [c |-> nil, err |-> TRUE]
       ELSE [c |-> <<cfg>>, err |-> FALSE]

\* mailgun.NewMailgun(domain, apiKey, publicApiKey)
configureMailgun(cfg) ==
    <<[domain |-> cfg.Domain, apiKey |-> cfg.PrivateAPIKey,
       publicApiKey |-> cfg.PublicValidationKey]>>

\* ----------------------------------------------------------------- inputs
Ports == {"", "8080"}

file(open, read, content) == [open |-> open, read |-> read, content |-> content]

FileMissing == file("err", "ok", garbage)
FileUnreadable == file("ok", "err", garbage)
FileMalformed == file("ok", "ok", garbage)
FileIncomplete ==
    file("ok", "ok", json(<<jstr("domain", "file.domain"),
                            jstr("privateAPIKey", "file.key"),
                            jstr("publicValidationKey", "file.pub")>>))
FileNoReferers ==
    file("ok", "ok", json(<<jstr("domain", "file.domain"),
                            jstr("privateAPIKey", "file.key"),
                            jstr("publicValidationKey", "file.pub"),
                            jstr("toAddress", "to@file")>>))
FileReferers ==
    file("ok", "ok", json(<<jstr("domain", "file.domain"),
                            jstr("privateAPIKey", "file.key"),
                            jstr("publicValidationKey", "file.pub"),
                            jstr("toAddress", "to@file"),
                            jarr("referers", << <<"a">> >>)>>))

Files == {FileMissing, FileUnreadable, FileMalformed, FileIncomplete,
          FileNoReferers, FileReferers}

environ(toAddress, referers) ==
    [MGDOMAIN |-> "env.domain", MGPRIVATEKEY |-> "env.key",
     MGPUBLICKEY |-> "env.pub", TOADDRESS |-> toAddress, REFERERS |-> referers]

Envs == {environ("to@env", <<>>), environ("to@env", <<"a", ",", "b">>),
         environ("", <<"a">>)}

RequestReferers == {<<>>, <<"a">>, <<"b">>}

BodyClean ==
    json(<<jstr("name", "Jane"), jstr("email", "jane@x.com"),
           jstr("message", "hi"), jstr("honeypot", "")>>)
BodyBot ==
    json(<<jstr("name", "Jane"), jstr("email", "jane@x.com"),
           jstr("message", "hi"), jstr("honeypot", "bot")>>)
BodyTypeMismatch ==
    json(<<jstr("name", "Jane"), jstr("email", "jane@x.com"),
           jstr("message", "hi"), jnum("honeypot", "1")>>)

Bodies == {garbage, BodyTypeMismatch, BodyClean, BodyBot}

\* ------------------------------------------------------------------ state
Init ==
    /\ mainPc = "port"
    /\ exit = "running"
    /\ c = nil
    /\ mg = nil
    /\ fileRead = <<>>
    /\ envRead = <<>>
    /\ listener = "none"
    /\ notified = FALSE
    /\ sigchan = 0
    /\ interrupted = FALSE
    /\ ctxDone = FALSE
    /\ reqs = <<>>
    /\ mgSends = <<>>

InFlight == {i \in 1..Len(reqs) : reqs[i].pc = "sending"}

request(route, referer, body, h) ==
    [route |-> route, referer |-> referer, body |-> body, pc |-> h.pc,
     status |-> h.status, headers |-> h.headers, respBody |-> h.respBody,
     decoded |-> h.decoded, sends |-> Len(h.send),
     mgErr |-> IF h.send = <<>> THEN "none" ELSE "pending"]

\* ------------------------------------------------------------------- main
\* port := os.Getenv("PORT"); log.Fatal when it is empty
CheckPort ==
    /\ exit = "running" /\ mainPc = "port"
    /\ \E port \in Ports :
          IF port = ""
          THEN mainPc' = "exited" /\ exit' = "exit1"
          ELSE mainPc' = "loadFile" /\ exit' = exit
    /\ UNCHANGED <<c, mg, fileRead, envRead, listener, notified, sigchan,
                   interrupted, ctxDone, reqs, mgSends>>

\* s.loadConfigFromFile(".config") and the branch main takes on its result
LoadFile ==
    /\ exit = "running" /\ mainPc = "loadFile"
    /\ \E f \in Files :
          LET r == loadConfigFromFile(f)
          IN /\ fileRead' = <<f>>
             /\ c' = r.c
             /\ IF r.err
                THEN mainPc' = "loadEnv" /\ mg' = mg
                ELSE mainPc' = "serve" /\ mg' = configureMailgun(r.c[1])
    /\ UNCHANGED <<exit, envRead, listener, notified, sigchan, interrupted,
                   ctxDone, reqs, mgSends>>

\* s.loadConfigFromEnv() after the file failed
LoadEnv ==
    /\ exit = "running" /\ mainPc = "loadEnv"
    /\ \E e \in Envs :
          LET r == loadConfigFromEnv(e)
          IN /\ envRead' = <<e>>
             /\ c' = r.c
             /\ mg' = IF r.err THEN mg ELSE configureMailgun(r.c[1])
    /\ mainPc' = "serve"
    /\ UNCHANGED <<exit, fileRead, listener, notified, sigchan, interrupted,
                   ctxDone, reqs, mgSends>>

\* the routes, the http.Server and the goroutine that will run it
Serve ==
    /\ exit = "running" /\ mainPc = "serve"
    /\ listener' = "starting"
    /\ mainPc' = "notify"
    /\ UNCHANGED <<exit, c, mg, fileRead, envRead, notified, sigchan,
                   interrupted, ctxDone, reqs, mgSends>>

\* c := make(chan os.Signal, 1); signal.Notify(c, os.Interrupt)
Notify ==
    /\ exit = "running" /\ mainPc = "notify"
    /\ notified' = TRUE
    /\ mainPc' = "wait"
    /\ UNCHANGED <<exit, c, mg, fileRead, envRead, listener, sigchan,
                   interrupted, ctxDone, reqs, mgSends>>

\* <-c, then context.WithTimeout: the grace period starts
ReceiveSignal ==
    /\ exit = "running" /\ mainPc = "wait"
    /\ sigchan = 1
    /\ sigchan' = 0
    /\ ctxDone' = FALSE
    /\ mainPc' = "shutdown"
    /\ UNCHANGED <<exit, c, mg, fileRead, envRead, listener, notified,
                   interrupted, reqs, mgSends>>

\* httpSrv.Shutdown(ctx), first half: the listener is closed
ShutdownBegin ==
    /\ exit = "running" /\ mainPc = "shutdown"
    /\ listener' = IF listener = "listening" THEN "closed" ELSE listener
    /\ mainPc' = "polling"
    /\ UNCHANGED <<exit, c, mg, fileRead, envRead, notified, sigchan,
                   interrupted, ctxDone, reqs, mgSends>>

\* faulty variant: Shutdown waits for the connections whatever the context says
shutdownMayReturn_NoDeadline(inflight, done) == inflight = {}

\* Shutdown returns when no connection is active or the context is done
shutdownMayReturn(inflight, done) == inflight = {} \/ done

\* httpSrv.Shutdown(ctx), second half, and os.Exit(0)
ShutdownReturn ==
    /\ exit = "running" /\ mainPc = "polling"
    /\ shutdownMayReturn(InFlight, ctxDone)
    /\ exit' = "exit0"
    /\ mainPc' = "exited"
    /\ UNCHANGED <<c, mg, fileRead, envRead, listener, notified, sigchan,
                   interrupted, ctxDone, reqs, mgSends>>

\* the deadline of context.WithTimeout(..., time.Second*10) passes
Deadline ==
    /\ exit = "running" /\ mainPc \in {"shutdown", "polling"}
    /\ ~ctxDone
    /\ ctxDone' = TRUE
    /\ UNCHANGED <<mainPc, exit, c, mg, fileRead, envRead, listener, notified,
                   sigchan, interrupted, reqs, mgSends>>

\* the goroutine's httpSrv.ListenAndServe(): it binds, or fails to, or finds
\* the server already shut down
ListenAndServe ==
    /\ exit = "running" /\ listener = "starting"
    /\ \/ mainPc # "polling" /\ listener' \in {"listening", "failed"}
       \/ mainPc = "polling" /\ listener' = "closed"
    /\ UNCHANGED <<mainPc, exit, c, mg, fileRead, envRead, notified, sigchan,
                   interrupted, ctxDone, reqs, mgSends>>

\* SIGINT reaches the process: queued on the channel (capacity 1, dropped
\* when full) once Notify ran, the default action (termination) before
Interrupt ==
    /\ exit = "running"
    /\ interrupted' = TRUE
    /\ IF notified
       THEN sigchan' = 1 /\ exit' = exit /\ mainPc' = mainPc
       ELSE sigchan' = sigchan /\ exit' = "sigint" /\ mainPc' = "exited"
    /\ UNCHANGED <<c, mg, fileRead, envRead, listener, notified, ctxDone, reqs,
                   mgSends>>

\* --------------------------------------------------------------- requests
\* POST /mail: the handler runs to its response or to the provider call
MailRequest ==
    /\ exit = "running" /\ listener = "listening"
    /\ Len(reqs) < MaxRequests
    /\ \E referer \in RequestReferers, body \in Bodies :
          LET h == mailHandler(c, mg, referer, body)
          IN /\ reqs' = Append(reqs, request("POST /mail", referer, body, h))
             /\ mgSends' = IF h.send = <<>> THEN mgSends
                           ELSE Append(mgSends, [req |-> Len(reqs) + 1,
                                                 msg |-> h.send[1]])
    /\ UNCHANGED <<mainPc, exit, c, mg, fileRead, envRead, listener, notified,
                   sigchan, interrupted, ctxDone>>

\* OPTIONS /
OptionsRequest ==
    /\ exit = "running" /\ listener = "listening"
    /\ Len(reqs) < MaxRequests
    /\ reqs' = Append(reqs, request("OPTIONS /", <<>>, garbage, optionsHandler))
    /\ UNCHANGED <<mainPc, exit, c, mg, fileRead, envRead, listener, notified,
                   sigchan, interrupted, ctxDone, mgSends>>

\* mg.Send returns to the handler blocked on it
ProviderReturn ==
    /\ exit = "running"
    /\ \E i \in InFlight, err \in BOOLEAN :
          LET h == afterSend(err)
          IN reqs' = [reqs EXCEPT ![i] =
                        [@ EXCEPT !.pc = h.pc, !.status = h.status,
                                  !.headers = h.headers,
                                  !.respBody = h.respBody,
                                  !.sends = @ + Len(h.send),
                                  !.mgErr = IF err THEN "err" ELSE "ok"]]
    /\ UNCHANGED <<mainPc, exit, c, mg, fileRead, envRead, listener, notified,
                   sigchan, interrupted, ctxDone, mgSends>>

Next ==
    \/ CheckPort \/ LoadFile \/ LoadEnv \/ Serve \/ Notify
    \/ ReceiveSignal \/ ShutdownBegin \/ ShutdownReturn \/ Deadline
    \/ ListenAndServe \/ Interrupt
    \/ MailRequest \/ OptionsRequest \/ ProviderReturn

Spec == Init /\ [][Next]_vars

\* main and the timer are scheduled: the Go runtime runs a runnable main
\* goroutine and the context's deadline fires.  Nothing obliges the provider
\* to answer.
FairSpec ==
    /\ Spec
    /\ WF_vars(ReceiveSignal) /\ WF_vars(ShutdownBegin)
    /\ WF_vars(ShutdownReturn) /\ WF_vars(Deadline)

\* ======================================================== properties
Mail(i) == reqs[i].route = "POST /mail"

Requests == 1..Len(reqs)

Range(s) == {s[i] : i \in 1..Len(s)}

\* start-up is over: main has set up the server
Started == listener # "none"

\* the four required fields
Complete(cfg) ==
    cfg.Domain # "" /\ cfg.PrivateAPIKey # "" /\ cfg.PublicValidationKey # ""
    /\ cfg.ToAddress # ""

\* request i passes the configuration check and the referer check
Admitted(i) ==
    /\ c # nil
    /\ \/ Len(c[1].Referers) = 0
       \/ reqs[i].referer \in Range(c[1].Referers)

\* the provider calls made for request i
SendsOf(i) == {k \in 1..Len(mgSends) : mgSends[k].req = i}

\* request i is one the handler has to dispatch
Dispatchable(i) ==
    /\ Mail(i) /\ Admitted(i)
    /\ ~Decode(reqs[i].body).err
    /\ Decode(reqs[i].body).m.Honeypot = ""

\* C1: whenever the loaded configuration is absent or lacks one of the four
\* required fields, every POST /mail request is answered 500 and no send is
\* made for it.
C1_IncompleteConfigFailsFast ==
    (c = nil \/ ~Complete(c[1])) =>
        \A i \in Requests :
            Mail(i) => /\ reqs[i].status = StatusInternalServerError
                       /\ reqs[i].sends = 0
                       /\ SendsOf(i) = {}

\* the file load the claim calls failed: missing, unreadable, or not JSON
FileLoadFails(f) == f.open # "ok" \/ f.read # "ok" \/ ~f.content.wf

\* the configuration the environment stands for, unset when incomplete
EnvConfig(e) ==
    LET cfg == config(e.MGDOMAIN, e.MGPRIVATEKEY, e.MGPUBLICKEY, e.TOADDRESS,
                      Split(e.REFERERS))
    IN IF Complete(cfg) THEN <<cfg>> ELSE nil

\* C2: after start-up, a failed file load (missing, unreadable or malformed
\* file) means the environment was read and the configuration is the
\* environment's when complete and unset otherwise; a successful file load
\* means the environment was not read.
C2_FileFailureFallsBackToEnv ==
    Started =>
        IF FileLoadFails(fileRead[1])
        THEN envRead # <<>> /\ c = EnvConfig(envRead[1])
        ELSE envRead = <<>>

\* C3: with a configuration whose allow-list is not empty, a POST /mail
\* request with an unlisted Referer is answered 403 without decoding or
\* sending, and one with a listed Referer goes on to decoding.
C3_RefererAllowList ==
    (c # nil /\ Len(c[1].Referers) # 0) =>
        \A i \in Requests :
            Mail(i) =>
                IF reqs[i].referer \in Range(c[1].Referers)
                THEN reqs[i].decoded
                ELSE /\ reqs[i].status = StatusForbidden
                     /\ ~reqs[i].decoded
                     /\ reqs[i].sends = 0
                     /\ SendsOf(i) = {}

C3_Witness ==
    /\ c # nil /\ Len(c[1].Referers) > 1
    /\ \E i, j \in Requests :
          /\ Mail(i) /\ Mail(j)
          /\ reqs[i].referer \notin Range(c[1].Referers)
          /\ reqs[i].status = StatusForbidden
          /\ reqs[j].referer = c[1].Referers[2]
          /\ reqs[j].decoded

\* no referers were configured: none in the file, or the REFERERS variable
\* unset or empty
NoReferersConfigured ==
    IF envRead = <<>>
    THEN \A k \in 1..Len(fileRead[1].content.pairs) :
            fileRead[1].content.pairs[k].k = "referers"
                => fileRead[1].content.pairs[k].a = <<>>
    ELSE envRead[1].REFERERS = <<>>

\* C4: with a configuration for which no referers were configured, every
\* POST /mail request goes on to decoding whatever its Referer; none is
\* answered 403.
C4_NoReferersNoCheck ==
    (Started /\ c # nil /\ NoReferersConfigured) =>
        \A i \in Requests :
            Mail(i) => reqs[i].decoded /\ reqs[i].status # StatusForbidden

\* C5: a POST /mail request that passes the configuration and referer checks
\* and decodes to a message with a non-empty honeypot is answered 200 with
\* the ok body and nothing is sent for it.
C5_HoneypotNotDispatched ==
    \A i \in Requests :
        (/\ Mail(i) /\ Admitted(i)
         /\ ~Decode(reqs[i].body).err
         /\ Decode(reqs[i].body).m.Honeypot # "")
        => /\ reqs[i].status = StatusOK
           /\ reqs[i].respBody = OKBody
           /\ reqs[i].sends = 0
           /\ SendsOf(i) = {}

C5_Witness ==
    \E i \in Requests :
        /\ Mail(i) /\ Admitted(i)
        /\ reqs[i].body = BodyBot
        /\ reqs[i].status = StatusOK
        /\ mgSends = <<>>

\* C6: a POST /mail request that passes the configuration and referer checks
\* and whose body does not decode is answered 500 and nothing is sent for it.
C6_UndecodableBodyFails ==
    \A i \in Requests :
        (Mail(i) /\ Admitted(i) /\ Decode(reqs[i].body).err)
        => /\ reqs[i].status = StatusInternalServerError
           /\ reqs[i].sends = 0
           /\ SendsOf(i) = {}

C6_Witness ==
    \E i, j \in Requests :
        /\ Mail(i) /\ Admitted(i) /\ reqs[i].body = garbage
        /\ reqs[i].status = StatusInternalServerError
        /\ Mail(j) /\ Admitted(j) /\ reqs[j].body = BodyTypeMismatch
        /\ reqs[j].status = StatusInternalServerError

\* C7: a POST /mail request with a configuration, an allowed referer (or an
\* empty allow-list), a decodable body and an empty honeypot makes exactly
\* one provider call, from the message's email, with the message's name as
\* subject and its text as body, to the configured destination; when that
\* call succeeds the answer is 200 with the ok body.
C7_DispatchOnceWithFields ==
    \A i \in Requests :
        Dispatchable(i) =>
            LET m == Decode(reqs[i].body).m
            IN /\ reqs[i].sends = 1
               /\ Cardinality(SendsOf(i)) = 1
               /\ \A k \in SendsOf(i) :
                     mgSends[k].msg = [from |-> m.Email, subject |-> m.Name,
                                       text |-> m.Message,
                                       to |-> c[1].ToAddress]
               /\ reqs[i].mgErr = "ok" =>
                     reqs[i].status = StatusOK /\ reqs[i].respBody = OKBody

C7_Witness ==
    \E i \in Requests :
        /\ Dispatchable(i)
        /\ Complete(c[1])
        /\ reqs[i].mgErr = "ok"
        /\ reqs[i].status = StatusOK
        /\ \E k \in SendsOf(i) : mgSends[k].msg.from = "jane@x.com"

\* C8: a request whose provider call failed is answered 500, never 200, and
\* no request has more than one provider call: the calls made never
\* outnumber the requests that reached dispatch.
C8_SingleAttemptNoRetry ==
    /\ Len(mgSends) <= Cardinality({i \in Requests : Dispatchable(i)})
    /\ \A i \in Requests :
          /\ reqs[i].sends <= 1
          /\ Cardinality(SendsOf(i)) <= 1
          /\ reqs[i].mgErr = "err" =>
                reqs[i].status = StatusInternalServerError

C8_Witness ==
    \E i, j \in Requests :
        /\ i # j
        /\ reqs[i].mgErr = "err"
        /\ reqs[i].status = StatusInternalServerError
        /\ reqs[j].mgErr = "ok"
        /\ Len(mgSends) = 2

\* C9 as stated: every response written by POST /mail or OPTIONS / carries
\* both Access-Control-Allow-Origin: * and X-Content-Type-Options: nosniff.
C9_EveryResponseBothHeaders ==
    \A i \in Requests :
        reqs[i].status # 0 => ACAO \in reqs[i].headers /\ NoSniff \in reqs[i].headers

\* C9 amended: every response carries Access-Control-Allow-Origin: *; the
\* 200 responses carry X-Content-Type-Options: nosniff as well, the 403 and
\* 500 responses do not.
C9_CorsEverywhereGuardOnSuccess ==
    \A i \in Requests :
        reqs[i].status # 0 =>
            /\ ACAO \in reqs[i].headers
            /\ NoSniff \in reqs[i].headers <=> reqs[i].status = StatusOK

C9_Witness ==
    \E i, j \in Requests :
        /\ reqs[i].route = "OPTIONS /" /\ reqs[i].status = StatusOK
        /\ Mail(j) /\ reqs[j].status = StatusForbidden

\* C10 as stated: once the process has received an interrupt, it ends with
\* exit code 0, and a request in flight is cut off only by the grace period.
C10_InterruptAlwaysExitsZero ==
    (interrupted /\ exit # "running") =>
        exit = "exit0" /\ (InFlight = {} \/ ctxDone)

\* C10 amended: for an interrupt received after signal.Notify has registered
\* the channel: once Shutdown has closed the listener no request is
\* accepted, the process exits only when no request is in flight or the
\* grace period is over, it exits with code 0 only, and it always exits.
C10_HandledInterruptShutsDown ==
    /\ [][mainPc = "polling" => Len(reqs') = Len(reqs)]_vars
    /\ [][(exit = "running" /\ exit' # "running" /\ notified)
            => (exit' = "exit0" /\ (InFlight = {} \/ ctxDone))]_vars
    /\ ((notified /\ sigchan = 1) ~> (exit = "exit0"))

C10_Witness ==
    /\ exit = "exit0" /\ interrupted
    /\ InFlight # {}
    /\ ctxDone

====
